---- MODULE Spec2Model ----
(***************************************************************************)
(* Model of tesserae/db/entities/token.py: the Token entity, its feature   *)
(* comparison (match), its scoped mutate/restore serialisation             *)
(* (json_encode) and its natural key (unique_values).                      *)
(*                                                                         *)
(* json_encode is modelled one source statement per step, so that calls on *)
(* the same instance can be run one after the other (SpecSeq) or           *)
(* interleaved at statement granularity (SpecConc).                        *)
(***************************************************************************)
EXTENDS Integers, Sequences, FiniteSets, TLC

\* ------------------------------------------------------------------ bounds
\* json_encode calls made in one behaviour
MaxCalls == 2
\* longest lemmata list of an enriched token
MaxLen == 2

\* ------------------------------------------------------------------ values
\* A Python value held by a field: None, a raw identifier (an ObjectId or a
\* str: no `id` attribute) or a reference to an Entity object.  Two entity
\* references are the same object iff they are equal here.
None == [kind |-> "none", n |-> 0]
Oid(i) == [kind |-> "oid", n |-> i]
Ent(e) == [kind |-> "ent", n |-> e]

Entities == {1, 2}
Oids == {1}
Values == {None} \cup {Oid(i) : i \in Oids} \cup {Ent(e) : e \in Entities}

\* The `id` attribute of an entity object: entity 1 is persisted, entity 2 was
\* built with the default id=None and is not persisted yet.
EntityId(e) == IF e = 1 THEN Oid(1) ELSE None

\* isinstance(v, Entity)
IsEntity(v) == v.kind = "ent"
\* hasattr(v, "id"): only entities carry an id attribute
HasIdAttr(v) == IsEntity(v)

\* The reference fields, in the order json_encode saves them in _ignore.
RefFields == <<"text", "feature_set", "line", "phrase", "frequency">>
RefNames  == {RefFields[i] : i \in 1..Len(RefFields)}
PlainNames == {"id", "index", "display"}
FieldNames == RefNames \cup PlainNames

Tokens == {1, 2}
\* the instance the json_encode calls are made on
Self == 1
Threads == {"t1", "t2"}

\* `del self._ignore` leaves the instance without the attribute
Absent == <<>>

Features == {"word", "lemmata", "semantic", "sound", "lemmata + semantic",
             "form", "lemma"}
\* the feature strings match has a branch of its own for (lines 83-90)
OwnBranch == {"word", "lemmata", "semantic", "sound"}
Forms == {"amo", "habeo"}
Lemmas == {"amo", "amare"}
SemanticTags == {"love", "have"}
SoundTags == {"am"}

\* the `exclude` arguments tried
Excludes == {{}, {"display"}}

NoObj == [kind |-> "noobj"]

VARIABLES
  plain,    \* plain[k]: id, index, display of token k
  refs,     \* refs[k][f]: the reference field f of token k
  feat,     \* feat[k]: form, lemmata, semantic, sound of token k (enriched)
  ignore,   \* the _ignore attribute of token Self: Absent or the saved list
  pc,       \* pc[t]: the statement thread t executes next, "idle" outside a call
  excl,     \* excl[t]: the exclude argument of t's call
  obj,      \* obj[t]: the local `obj` of t's call
  outcome,  \* outcome[t]: how t's last call ended
  ret,      \* ret[t]: what t's last call returned
  pre,      \* pre[t]: the reference fields of Self when t's call began
  atEncode, \* atEncode[t]: the fields of Self when t's call invoked the base encoder
  ncalls,   \* json_encode calls begun
  overlap,  \* TRUE once a call began while another call was in progress
  orig,     \* the reference fields of Self as the token was constructed
  clean,    \* TRUE while no json_encode call has raised
  matched,  \* the last match call and its result
  uniques   \* the last unique_values call and its result

vars == <<plain, refs, feat, ignore, pc, excl, obj, outcome, ret, pre, atEncode,
          ncalls, overlap, orig, clean, matched, uniques>>

tokenVars == <<plain, refs, feat, ignore>>
callVars == <<pc, excl, obj, outcome, ret, pre, atEncode, ncalls, overlap, orig, clean>>


\* ------------------------------------------------------------ pure helpers
\* All fields of token k as the instance holds them right now.
FieldsOf(k) == [f \in FieldNames |-> IF f \in RefNames THEN refs[k][f] ELSE plain[k][f]]

\* faulty variant: the list is built in the reverse order of the restoring statements
SaveListReversed(r) == [i \in 1..Len(RefFields) |-> r[RefFields[Len(RefFields) + 1 - i]]]

\* line 96: [self.text, self.feature_set, self.line, self.phrase, self.frequency]
SaveList(r) == [i \in 1..Len(RefFields) |-> r[RefFields[i]]]

\* faulty variant: a raw identifier is taken to carry an id attribute as well
CanSubstituteAny(v) == TRUE

\* lines 97-101: `v.id if v is not None else None` evaluates without error
CanSubstitute(v) == v = None \/ HasIdAttr(v)

\* faulty variant: the field keeps the object instead of its id
SubstituteKeepsObject(v) == v

\* lines 97-101: the value `v.id if v is not None else None`
Substitute(v) == IF v = None THEN None ELSE EntityId(v.n)

\* Entity.json_encode(exclude): the instance's fields as a mapping, without
\* the excluded ones.
BaseEncode(fields, exclude) == [f \in FieldNames \ exclude |-> fields[f]]

SubPc == <<"L97", "L98", "L99", "L100", "L101">>
ResPc == <<"L105", "L106", "L107", "L108", "L109">>
AfterSub(i) == IF i < Len(RefFields) THEN SubPc[i + 1] ELSE "L103"
AfterRes(i) == IF i < Len(RefFields) THEN ResPc[i + 1] ELSE "L110"

NoFields == [kind |-> "nofields"]

\* ------------------------------------------------------------- json_encode
\* An exception leaves json_encode: nothing after the raising statement runs.
Raise(t, error) ==
  /\ pc' = [pc EXCEPT ![t] = "idle"]
  /\ outcome' = [outcome EXCEPT ![t] = error]
  /\ clean' = FALSE

\* a caller invokes self.json_encode(exclude)
Call(t) ==
  /\ pc[t] = "idle"
  /\ ncalls < MaxCalls
  /\ \E x \in Excludes : excl' = [excl EXCEPT ![t] = x]
  /\ pc' = [pc EXCEPT ![t] = "L96"]
  /\ obj' = [obj EXCEPT ![t] = NoObj]
  /\ ret' = [ret EXCEPT ![t] = NoObj]
  /\ outcome' = [outcome EXCEPT ![t] = "running"]
  /\ pre' = [pre EXCEPT ![t] = refs[Self]]
  /\ atEncode' = [atEncode EXCEPT ![t] = NoFields]
  /\ ncalls' = ncalls + 1
  /\ overlap' = (overlap \/ \E u \in Threads \ {t} : pc[u] # "idle")
  /\ UNCHANGED <<tokenVars, orig, clean, matched, uniques>>

\* line 96: self._ignore = [...]
Save(t) ==
  /\ pc[t] = "L96"
  /\ ignore' = SaveList(refs[Self])
  /\ pc' = [pc EXCEPT ![t] = "L97"]
  /\ UNCHANGED <<plain, refs, feat, excl, obj, outcome, ret, pre, atEncode,
                 ncalls, overlap, orig, clean, matched, uniques>>

\* lines 97-101: self.f = self.f.id if self.f is not None else None
SubstituteField(t, i) ==
  /\ pc[t] = SubPc[i]
  /\ IF CanSubstitute(refs[Self][RefFields[i]])
       THEN /\ refs' = [refs EXCEPT ![Self][RefFields[i]] = Substitute(@)]
            /\ pc' = [pc EXCEPT ![t] = AfterSub(i)]
            /\ UNCHANGED <<outcome, clean>>
       ELSE /\ Raise(t, "AttributeError")
            /\ UNCHANGED refs
  /\ UNCHANGED <<plain, feat, ignore, excl, obj, ret, pre, atEncode,
                 ncalls, overlap, orig, matched, uniques>>

\* line 103: obj = super(Token, self).json_encode(exclude=exclude), returning
EncodeOk(t) ==
  /\ pc[t] = "L103"
  /\ atEncode' = [atEncode EXCEPT ![t] = FieldsOf(Self)]
  /\ obj' = [obj EXCEPT ![t] = BaseEncode(FieldsOf(Self), excl[t])]
  /\ pc' = [pc EXCEPT ![t] = "L105"]
  /\ UNCHANGED <<tokenVars, excl, outcome, ret, pre, ncalls, overlap, orig, clean,
                 matched, uniques>>

\* line 103: the base encoder raises
EncodeFail(t) ==
  /\ pc[t] = "L103"
  /\ atEncode' = [atEncode EXCEPT ![t] = FieldsOf(Self)]
  /\ Raise(t, "EncodeError")
  /\ UNCHANGED <<tokenVars, excl, obj, ret, pre, ncalls, overlap, orig, matched, uniques>>

\* lines 105-109: self.f = self._ignore[i]
RestoreField(t, i) ==
  /\ pc[t] = ResPc[i]
  /\ IF ignore # Absent
       THEN /\ refs' = [refs EXCEPT ![Self][RefFields[i]] = ignore[i]]
            /\ pc' = [pc EXCEPT ![t] = AfterRes(i)]
            /\ UNCHANGED <<outcome, clean>>
       ELSE /\ Raise(t, "AttributeError")
            /\ UNCHANGED refs
  /\ UNCHANGED <<plain, feat, ignore, excl, obj, ret, pre, atEncode,
                 ncalls, overlap, orig, matched, uniques>>

\* line 110: del self._ignore
DelIgnore(t) ==
  /\ pc[t] = "L110"
  /\ IF ignore # Absent
       THEN /\ ignore' = Absent
            /\ pc' = [pc EXCEPT ![t] = "L112"]
            /\ UNCHANGED <<outcome, clean>>
       ELSE /\ Raise(t, "AttributeError")
            /\ UNCHANGED ignore
  /\ UNCHANGED <<plain, refs, feat, excl, obj, ret, pre, atEncode,
                 ncalls, overlap, orig, matched, uniques>>

\* line 112: return obj
Return(t) ==
  /\ pc[t] = "L112"
  /\ ret' = [ret EXCEPT ![t] = obj[t]]
  /\ pc' = [pc EXCEPT ![t] = "idle"]
  /\ outcome' = [outcome EXCEPT ![t] = "returned"]
  /\ UNCHANGED <<tokenVars, excl, obj, pre, atEncode, ncalls, overlap, orig, clean,
                 matched, uniques>>

\* one statement of the body of thread t's json_encode call
JsonBody(t) ==
  \/ Save(t)
  \/ \E i \in 1..Len(RefFields) : SubstituteField(t, i)
  \/ EncodeOk(t)
  \/ EncodeFail(t)
  \/ \E i \in 1..Len(RefFields) : RestoreField(t, i)
  \/ DelIgnore(t)
  \/ Return(t)

AllIdle == \A t \in Threads : pc[t] = "idle"
OthersIdle(t) == \A u \in Threads \ {t} : pc[u] = "idle"


\* ------------------------------------------------------------------- match
\* set(l) of a Python list l
PySet(l) == {l[i] : i \in 1..Len(l)}

\* len(set(a) & set(b)) > 0
Intersects(a, b) == Cardinality(PySet(a) \cap PySet(b)) > 0

\* faulty variant: the fallback branch joins the two tests with `or`
MatchValueOr(self, other, feature) ==
  IF feature = "word" THEN self.form = other.form
  ELSE IF feature = "lemmata" THEN Intersects(self.lemmata, other.lemmata)
  ELSE IF feature = "semantic" THEN Intersects(self.semantic, other.semantic)
  ELSE IF feature = "sound" THEN Intersects(self.sound, other.sound)
  ELSE Intersects(self.lemmata, other.lemmata)
       \/ Intersects(self.semantic, other.semantic)

\* faulty variant: the lemmata branch tests set(self.lemmata) <= set(other.lemmata)
MatchValueSubset(self, other, feature) ==
  IF feature = "word" THEN self.form = other.form
  ELSE IF feature = "lemmata" THEN PySet(self.lemmata) \subseteq PySet(other.lemmata)
  ELSE IF feature = "semantic" THEN Intersects(self.semantic, other.semantic)
  ELSE IF feature = "sound" THEN Intersects(self.sound, other.sound)
  ELSE Intersects(self.lemmata, other.lemmata)
       /\ Intersects(self.semantic, other.semantic)

\* lines 83-93: the value self.match(other, feature) returns, self and other
\* being the feature attributes of two enriched tokens
MatchValue(self, other, feature) ==
  IF feature = "word" THEN self.form = other.form
  ELSE IF feature = "lemmata" THEN Intersects(self.lemmata, other.lemmata)
  ELSE IF feature = "semantic" THEN Intersects(self.semantic, other.semantic)
  ELSE IF feature = "sound" THEN Intersects(self.sound, other.sound)
  ELSE Intersects(self.lemmata, other.lemmata)
       /\ Intersects(self.semantic, other.semantic)

\* faulty variant: the lemmata of self are narrowed in place to the shared ones
MatchInPlace(s, o, feature) ==
  /\ AllIdle
  /\ matched' = [self |-> s, other |-> o, feature |-> feature,
                 value |-> MatchValue(feat[s], feat[o], feature)]
  /\ feat' = [feat EXCEPT ![s].lemmata =
                SelectSeq(@, LAMBDA x : x \in PySet(feat[o].lemmata))]
  /\ UNCHANGED <<plain, refs, ignore, callVars, uniques>>

\* token s is asked s.match(o, feature)
Match(s, o, feature) ==
  /\ AllIdle
  /\ matched' = [self |-> s, other |-> o, feature |-> feature,
                 value |-> MatchValue(feat[s], feat[o], feature)]
  /\ UNCHANGED <<tokenVars, callVars, uniques>>

\* ----------------------------------------------------------- unique_values
\* faulty variant: the text is returned as stored, without the isinstance test
UniqueValuesStored(fields) ==
  [key \in {"text", "index"} |-> IF key = "text" THEN fields.text ELSE fields.index]

\* lines 115-119: the mapping unique_values returns for a token with these fields
UniqueValuesOf(fields) ==
  [key \in {"text", "index"} |->
     IF key = "text"
       THEN IF IsEntity(fields.text) THEN EntityId(fields.text.n) ELSE fields.text
       ELSE fields.index]

\* token k is asked k.unique_values()
UniqueValues(k) ==
  /\ AllIdle
  /\ uniques' = [token |-> k, text |-> refs[k].text, index |-> plain[k].index,
                 value |-> UniqueValuesOf(FieldsOf(k))]
  /\ UNCHANGED <<tokenVars, callVars, matched>>

\* ------------------------------------------------------------ initial states
\* lists of length at most n over the set S
ListsUpTo(S, n) == UNION {[1..m -> S] : m \in 0..n}

\* what the enrichment step may have stored on a token
Enriched == [form : Forms, lemmata : ListsUpTo(Lemmas, MaxLen),
             semantic : ListsUpTo(SemanticTags, 1), sound : ListsUpTo(SoundTags, 1)]

SampleFeat == [form |-> "amo", lemmata |-> <<"amo", "amare">>,
               semantic |-> <<"love">>, sound |-> <<"am">>]
SamplePlain == [k \in Tokens |-> [id |-> Oid(k), index |-> k - 1, display |-> "Amo"]]
SampleRefs == [f \in RefNames |-> IF f = "text" THEN Oid(1) ELSE None]

NoMatch == [self |-> 0, other |-> 0, feature |-> "none", value |-> FALSE]
NoUniques == [token |-> 0, text |-> None, index |-> 0, value |-> <<>>]

InitCalls ==
  /\ ignore = Absent
  /\ pc = [t \in Threads |-> "idle"]
  /\ excl = [t \in Threads |-> {}]
  /\ obj = [t \in Threads |-> NoObj]
  /\ ret = [t \in Threads |-> NoObj]
  /\ outcome = [t \in Threads |-> "none"]
  /\ pre = [t \in Threads |-> SampleRefs]
  /\ atEncode = [t \in Threads |-> NoFields]
  /\ ncalls = 0
  /\ overlap = FALSE
  /\ orig = refs[Self]
  /\ clean = TRUE
  /\ matched = NoMatch
  /\ uniques = NoUniques

\* Token(id, text, index, display, feature_set, line, phrase, frequency) for
\* every choice of the reference fields of token Self (lines 58-67)
InitEncode ==
  /\ plain = SamplePlain
  /\ \E r \in [RefNames -> Values] : refs = [k \in Tokens |-> IF k = Self THEN r ELSE SampleRefs]
  /\ feat = [k \in Tokens |-> SampleFeat]
  /\ InitCalls

\* a token whose reference fields all hold full entities, shared by the threads
InitShared ==
  /\ InitEncode
  /\ \A f \in RefNames : IsEntity(refs[Self][f])

\* two enriched tokens, for every choice of their feature attributes
InitMatch ==
  /\ plain = SamplePlain
  /\ refs = [k \in Tokens |-> IF k = Self THEN [SampleRefs EXCEPT !["text"] = Ent(1)] ELSE SampleRefs]
  /\ feat \in [Tokens -> Enriched]
  /\ InitCalls

\* ---------------------------------------------------------- specifications
\* a single-threaded caller: a json_encode call runs to its end before the
\* next operation begins
NextSeq ==
  \/ \E t \in Threads : OthersIdle(t) /\ Call(t)
  \/ \E t \in Threads : JsonBody(t)
  \/ \E k \in Tokens : UniqueValues(k)

\* two threads sharing the instance, each making one call: the calls
\* interleave statement by statement
NextConc ==
  \/ \E t \in Threads : outcome[t] = "none" /\ Call(t)
  \/ \E t \in Threads : JsonBody(t)

\* the matching engine comparing token pairs
NextMatch == \E s \in Tokens, f \in Features : \E o \in Tokens \ {s} : Match(s, o, f)

SpecSeq == InitEncode /\ [][NextSeq]_vars
SpecConc == InitShared /\ [][NextConc]_vars
SpecMatch == InitMatch /\ [][NextMatch]_vars


\* ------------------------------------------------------------------ claims
\* the identifier a reference value stands for: an entity's id, a raw
\* identifier itself, nothing for an unset field
RefId(v) == IF v.kind = "ent" THEN EntityId(v.n) ELSE v

\* the two lists share an element
Shares(a, b) == \E i \in DOMAIN a, j \in DOMAIN b : a[i] = b[j]

Failures == {"AttributeError", "EncodeError"}
UnsetOrEntity(r) == \A f \in RefNames : r[f] = None \/ IsEntity(r[f])
HoldsRaw(r) == \E f \in RefNames : r[f].kind = "oid"
\* thread t leaves json_encode in this step
Exits(t) == pc[t] # "idle" /\ pc'[t] = "idle"
Finished(t) == pc[t] = "idle" /\ outcome[t] \in Failures \cup {"returned"}

\* C1: whenever a json_encode call exits by raising (in the base encoder or in
\* any other step), the five reference fields hold the values they held
\* before the call.
C1_RestoredOnFailure ==
  [][\A t \in Threads :
       (Exits(t) /\ outcome'[t] \in Failures) => refs'[Self] = pre[t]]_vars

\* C2: a json_encode call that returns, made on a token whose reference fields
\* are each unset or a full entity, leaves every reference field the very
\* object it was before the call; after any number of calls that all returned
\* the fields are still the objects the token was built with.
C2_ReturnLeavesFields ==
  [][\A t \in Threads :
       (Exits(t) /\ outcome'[t] = "returned" /\ UnsetOrEntity(pre[t]))
         => /\ refs'[Self] = pre[t]
            /\ (clean => refs'[Self] = orig)]_vars

\* two successive calls have returned on a token holding full entities
C2_Witness ==
  /\ AllIdle /\ clean /\ ncalls >= 2
  /\ \A f \in RefNames : IsEntity(orig[f])
  /\ refs[Self] = orig

\* C3: when a call invokes the base encoder, every reference field holds the
\* identifier of the entity it referenced before the call, or None when it
\* was unset, the other fields are the token's own, and the mapping produced
\* holds no entity object in a reference field.
C3_EncoderSeesIdentifiers ==
  \A t \in Threads :
    atEncode[t] # NoFields =>
      /\ \A f \in RefNames : atEncode[t][f] = RefId(pre[t][f])
      /\ \A f \in RefNames : ~IsEntity(atEncode[t][f])
      /\ \A f \in PlainNames : atEncode[t][f] = plain[Self][f]
      /\ obj[t] # NoObj =>
           \A f \in DOMAIN obj[t] :
              /\ f \in RefNames => ~IsEntity(obj[t][f])
              /\ f \in PlainNames => obj[t][f] = plain[Self][f]

\* a mapping was produced for a token holding a persisted entity
C3_Witness ==
  \E t \in Threads :
    /\ obj[t] # NoObj
    /\ pre[t]["text"] = Ent(1)
    /\ pre[t]["line"] = None
    /\ obj[t]["text"] = Oid(1)

C5_LemmataSymmetric ==
  matched.feature # "none" =>
    /\ matched.feature = "lemmata" =>
         (matched.value <=>
            Shares(feat[matched.self].lemmata, feat[matched.other].lemmata))
    /\ matched.value = MatchValue(feat[matched.other], feat[matched.self], matched.feature)

\* two tokens with different lemmata lists that share one lemma match
C5_Witness ==
  /\ matched.feature = "lemmata"
  /\ feat[matched.self].lemmata = <<"amo", "amare">>
  /\ feat[matched.other].lemmata = <<"amare">>
  /\ matched.value = TRUE

\* C6: unique_values returns exactly the keys text and index, index being the
\* token's index and text the identifier of its text, whether the field holds
\* the identifier or an entity with that id.
C6_UniqueValues ==
  uniques.token # 0 =>
    /\ DOMAIN uniques.value = {"text", "index"}
    /\ uniques.value["index"] = uniques.index
    /\ uniques.value["text"] = RefId(uniques.text)
    /\ ~IsEntity(uniques.value["text"])

\* a token holding the text entity gave the entity's id
C6_Witness ==
  /\ uniques.token = Self
  /\ uniques.text = Ent(1)
  /\ uniques.value["text"] = Oid(1)

\* C7: match on the documented feature name "form" is true iff the forms are
\* equal.
C7_FormComparesForms ==
  matched.feature = "form" =>
    (matched.value <=> feat[matched.self].form = feat[matched.other].form)

\* C8: a step that delivers a match result delivers a boolean and leaves every
\* field of every token as it was.
C8_MatchFrame ==
  [][matched' # matched =>
       /\ matched'.value \in BOOLEAN
       /\ UNCHANGED <<plain, refs, feat, ignore>>]_vars

\* a match call has delivered TRUE
C8_Witness == matched.feature = "semantic" /\ matched.value = TRUE

\* C9: two calls on a token holding full entities that did not overlap leave,
\* once both have ended, every reference field as it was and neither has
\* raised an attribute error.
C9_SequentialCallsSafe ==
  (\A t \in Threads : Finished(t)) /\ ~overlap =>
     /\ refs[Self] = orig
     /\ \A t \in Threads : outcome[t] # "AttributeError"

\* the race: two overlapping calls, the base encoder raising in neither, after
\* which a reference field holds an identifier instead of its entity
C9_RaceLosesEntity ==
  /\ \A t \in Threads : Finished(t) /\ outcome[t] # "EncodeError"
  /\ overlap
  /\ \E f \in RefNames : IsEntity(orig[f]) /\ refs[Self][f].kind = "oid"

\* the race on the shared _ignore slot: both calls got past the base encoder
\* and one of them raised on the missing attribute
C9_RaceOnIgnore ==
  /\ \A t \in Threads : Finished(t) /\ obj[t] # NoObj
  /\ overlap
  /\ \E t \in Threads : outcome[t] = "AttributeError"

\* calls that did not overlap and in which the base encoder did not raise
\* leave the fields as they were
C9_SafeUnlessEncoderRaises ==
  (\A t \in Threads : Finished(t) /\ outcome[t] # "EncodeError") /\ ~overlap =>
     /\ refs[Self] = orig
     /\ \A t \in Threads : outcome[t] = "returned"

\* C10: a call on a token with a reference field holding a raw identifier
\* never reaches the base encoder, ends with an attribute error raised in the
\* substitution step and returns no object.
C10_RawIdentifierFails ==
  \A t \in Threads :
    (outcome[t] # "none" /\ HoldsRaw(pre[t])) =>
      /\ atEncode[t] = NoFields
      /\ obj[t] = NoObj /\ ret[t] = NoObj
      /\ outcome[t] \in {"running", "AttributeError"}
      /\ pc[t] \in {"idle", "L96"} \cup {SubPc[i] : i \in 1..Len(RefFields)}

\* a call on a token whose text is a raw identifier has raised
C10_Witness ==
  \E t \in Threads :
    /\ pre[t]["text"] = Oid(1)
    /\ pre[t]["line"] = Ent(1)
    /\ Finished(t)
    /\ outcome[t] = "AttributeError"

====
